---- MODULE Spec2Model ----
(***************************************************************************)
(* Model of official/transformer/v2/misc.py:                               *)
(*   - get_model_params: the parameter-set resolver over the shared        *)
(*     hyperparameter tables of model_params (specification Spec);         *)
(*   - define_transformer_flags: the four cross-field flag validators and  *)
(*     the configuration step that runs them (specification FlagsSpec).    *)
(***************************************************************************)
EXTENDS Integers, Sequences, FiniteSets, TLC

\* Number of get_model_params calls explored in one behaviour.
MaxCalls == 2

VARIABLES
  tables,     \* the shared stored records of model_params, by global name
  copies,     \* heap of records allocated by dict.copy(), in allocation order
  held,       \* references the callers hold (every reference ever returned)
  result,     \* outcome of the latest get_model_params call
  first,      \* per input, the call number and the record of its first return
  calls,      \* number of get_model_params calls made
  written,    \* whether a caller has written to a record it was given
  pc,         \* position of the configuration step
  flags,      \* the parsed flag values
  verdicts,   \* per validator, what it returned ("pending" before it ran)
  error,      \* message of the validator that failed
  downstream  \* the configuration handed to the drivers

paramVars == <<tables, copies, held, result, first, calls, written>>
flagVars  == <<pc, flags, verdicts, error, downstream>>
vars      == <<tables, copies, held, result, first, calls, written,
               pc, flags, verdicts, error, downstream>>

(***************************************************************************)
(* Part 1: the parameter-set resolver.                                     *)
(***************************************************************************)

\* Names a caller may pass: the enumeration, plus names outside it.
ParamSetNames == {"tiny", "base", "big", "unknown"}

\* Device counts a caller may pass.
GpuCounts == {-1, 0, 1, 2, 4}

\* The hyperparameters kept per record (scalars only).
Fields == {"hidden_size", "learning_rate_warmup_steps"}

\* The value a caller writes into a record it was given (no stored record holds it).
MutValues == {0}

\* The module-level records of official.transformer.model.model_params.
ModelParams ==
  [ TINY_PARAMS |->
      [hidden_size |-> 32, learning_rate_warmup_steps |-> 16000],
    BASE_PARAMS |->
      [hidden_size |-> 512, learning_rate_warmup_steps |-> 16000],
    BIG_PARAMS |->
      [hidden_size |-> 1024, learning_rate_warmup_steps |-> 16000],
    BASE_MULTI_GPU_PARAMS |->
      [hidden_size |-> 512, learning_rate_warmup_steps |-> 8000],
    BIG_MULTI_GPU_PARAMS |->
      [hidden_size |-> 1024, learning_rate_warmup_steps |-> 8000] ]

\* PARAMS_MAP: name -> the stored record it refers to (a reference, not a copy).
PARAMS_MAP ==
  [tiny |-> "TINY_PARAMS", base |-> "BASE_PARAMS", big |-> "BIG_PARAMS"]

\* A reference is either to a stored table record or to a heap copy.
TableRef(t) == [table |-> t, copy |-> 0]
CopyRef(i)  == [table |-> "", copy |-> i]
NoRef       == [table |-> "", copy |-> 0]
NoRecord    == [hidden_size |-> -1, learning_rate_warmup_steps |-> -1]

Deref(ref) == IF ref.copy = 0 THEN tables[ref.table] ELSE copies[ref.copy]

\* Mutant of DictCopy: hand out the stored record itself.
SharedRecord(t) == [ref |-> TableRef(t), copies |-> copies]

\* dict.copy() of stored record t: a fresh object holding the same items.
DictCopy(t) ==
  [ref |-> CopyRef(Len(copies) + 1), copies |-> Append(copies, tables[t])]

\* Mutant of FormatNotValid: the device count is left out of the message.
FormatNotValidNoGpus(param_set, num_gpus) ==
  <<"Not valid params: param_set=", param_set>>

\* "Not valid params: param_set={} num_gpus={}".format(param_set, num_gpus)
FormatNotValid(param_set, num_gpus) ==
  <<"Not valid params: param_set=", param_set,
    " num_gpus=", ToString(num_gpus)>>

Raise(exc, args) == [kind |-> exc, table |-> "", args |-> args]
Return(t)        == [kind |-> "return", table |-> t, args |-> <<>>]

\* Mutant of Lookup: dict.get-like lookup that falls back to the default set.
LookupWithDefault(param_set) ==
  IF param_set \in DOMAIN PARAMS_MAP
    THEN Return(PARAMS_MAP[param_set])
    ELSE Return(PARAMS_MAP["big"])

\* PARAMS_MAP[param_set]: the stored record, or KeyError(param_set).
Lookup(param_set) ==
  IF param_set \in DOMAIN PARAMS_MAP
    THEN Return(PARAMS_MAP[param_set])
    ELSE Raise("KeyError", <<param_set>>)

\* Mutant of Select: the multi-device branch is taken from one device on.
SelectFromOne(param_set, num_gpus) ==
  IF num_gpus >= 1
    THEN IF param_set = "big" THEN Return("BIG_MULTI_GPU_PARAMS")
         ELSE IF param_set = "base" THEN Return("BASE_MULTI_GPU_PARAMS")
         ELSE Raise("ValueError", FormatNotValid(param_set, num_gpus))
    ELSE Lookup(param_set)

\* The branches of get_model_params: which stored record, or which error.
Select(param_set, num_gpus) ==
  IF num_gpus > 1
    THEN IF param_set = "big" THEN Return("BIG_MULTI_GPU_PARAMS")
         ELSE IF param_set = "base" THEN Return("BASE_MULTI_GPU_PARAMS")
         ELSE Raise("ValueError", FormatNotValid(param_set, num_gpus))
    ELSE Lookup(param_set)

NoResult ==
  [param_set |-> "", num_gpus |-> 0, kind |-> "none", table |-> "",
   args |-> <<>>, ref |-> NoRef, record |-> NoRecord, after_write |-> FALSE]

NotCalled == [at |-> 0, record |-> NoRecord]

\* One call get_model_params(param_set, num_gpus).
GetModelParams(param_set, num_gpus) ==
  /\ calls < MaxCalls
  /\ calls' = calls + 1
  /\ LET sel == Select(param_set, num_gpus) IN
     IF sel.kind = "return"
       THEN LET got == DictCopy(sel.table)
                rec == IF got.ref.copy = 0
                         THEN tables[got.ref.table]
                         ELSE got.copies[got.ref.copy] IN
            /\ copies' = got.copies
            /\ held' = held \cup {got.ref}
            /\ result' = [param_set |-> param_set, num_gpus |-> num_gpus,
                          kind |-> "return", table |-> sel.table,
                          args |-> <<>>, ref |-> got.ref, record |-> rec,
                          after_write |-> written]
            /\ first' = IF first[<<param_set, num_gpus>>].at = 0
                          THEN [first EXCEPT ![<<param_set, num_gpus>>] =
                                  [at |-> calls + 1, record |-> rec]]
                          ELSE first
       ELSE /\ result' = [param_set |-> param_set, num_gpus |-> num_gpus,
                          kind |-> sel.kind, table |-> "",
                          args |-> sel.args, ref |-> NoRef,
                          record |-> NoRecord, after_write |-> written]
            /\ UNCHANGED <<copies, held, first>>
  /\ UNCHANGED <<tables, written>>
  /\ UNCHANGED flagVars

\* A caller writes value v to field f of a record it was given.
MutateReturned(ref, f, v) ==
  /\ ref \in held
  /\ IF ref.copy = 0
       THEN /\ tables' = [tables EXCEPT ![ref.table][f] = v]
            /\ UNCHANGED copies
       ELSE /\ copies' = [copies EXCEPT ![ref.copy][f] = v]
            /\ UNCHANGED tables
  /\ written' = TRUE
  /\ UNCHANGED <<held, result, first, calls>>
  /\ UNCHANGED flagVars

(***************************************************************************)
(* Part 2: the flags of define_transformer_flags and their validators.     *)
(***************************************************************************)

\* An unset flag (Python None) and a set one.
None    == <<>>
Some(v) == <<v>>

\* Python truthiness of an optional string flag: None and "" are falsy.
Truthy(x) == x # None /\ x[1] # ""

\* Flag values the argument parser may produce.
Modes            == {"train", "eval", "predict"}
TrainEpochValues == {None, Some(-1), Some(0), Some(10)}
BleuSourceValues == {None, Some(""), Some("newstest.en")}
BleuRefValues    == {None, Some(""), Some("newstest.de")}
VocabFileValues  == {None, Some(""), Some("vocab.ende")}
ExportDirValues  == {None, Some(""), Some("/tmp/export")}

FlagValues ==
  [mode : Modes, train_epochs : TrainEpochValues,
   bleu_source : BleuSourceValues, bleu_ref : BleuRefValues,
   vocab_file : VocabFileValues, export_dir : ExportDirValues,
   cloud_storage_ok : BOOLEAN]

\* The declared defaults (DEFINE_* defaults and set_defaults).
DefaultFlags ==
  [mode |-> "train", train_epochs |-> Some(10),
   bleu_source |-> None, bleu_ref |-> None,
   vocab_file |-> None, export_dir |-> None,
   cloud_storage_ok |-> TRUE]

\* Mutant of _check_train_limits: the validator accepts everything.
CheckTrainLimitsAlways(flag_dict) == TRUE

\* Mutant of _check_train_limits: train_epochs is required in every mode.
CheckTrainLimitsAnyMode(flag_dict) == flag_dict.train_epochs # None

_check_train_limits(flag_dict) ==
  IF flag_dict.mode = "train"
    THEN flag_dict.train_epochs # None
    ELSE TRUE

\* Mutant of _check_bleu_files: only a missing reference is noticed.
CheckBleuFilesSourceOnly(flags_dict) ==
  flags_dict.bleu_source = None \/ flags_dict.bleu_ref # None

_check_bleu_files(flags_dict) ==
  (flags_dict.bleu_source = None) = (flags_dict.bleu_ref = None)

_check_bleu_vocab_file(flags_dict) ==
  IF Truthy(flags_dict.bleu_source) /\ Truthy(flags_dict.bleu_ref)
    THEN flags_dict.vocab_file # None
    ELSE TRUE

_check_export_vocab_file(flags_dict) ==
  IF Truthy(flags_dict.export_dir)
    THEN flags_dict.vocab_file # None
    ELSE TRUE

\* The validator registered by flags_core.require_cloud_storage; its predicate
\* is not part of this file, so its outcome is an input of the step.
CloudStorageCheck(flags_dict) == flags_dict.cloud_storage_ok

ValidatorNames ==
  {"_check_train_limits", "_check_bleu_files", "_check_bleu_vocab_file",
   "_check_export_vocab_file", "require_cloud_storage"}

\* Mutant of Registered: _check_export_vocab_file lost its decorator.
RegisteredWithoutExport ==
  <<"_check_train_limits", "_check_bleu_files", "_check_bleu_vocab_file",
    "require_cloud_storage">>

\* The validators in registration order.
Registered ==
  <<"_check_train_limits", "_check_bleu_files", "_check_bleu_vocab_file",
    "_check_export_vocab_file", "require_cloud_storage">>

\* The message each validator was registered with.
Message(name) ==
  CASE name = "_check_train_limits" ->
         "--train_epochs must be defined in train mode"
    [] name = "_check_bleu_files" ->
         "Both or neither --bleu_source and --bleu_ref must be defined."
    [] name = "_check_bleu_vocab_file" ->
         "--vocab_file must be defined if --bleu_source and --bleu_ref are defined."
    [] name = "_check_export_vocab_file" ->
         "--vocab_file must be defined if --export_dir is set."
    [] OTHER -> "cloud storage paths required"

\* The predicate a registered name stands for.
Verify(name, flag_dict) ==
  CASE name = "_check_train_limits"      -> _check_train_limits(flag_dict)
    [] name = "_check_bleu_files"        -> _check_bleu_files(flag_dict)
    [] name = "_check_bleu_vocab_file"   -> _check_bleu_vocab_file(flag_dict)
    [] name = "_check_export_vocab_file" -> _check_export_vocab_file(flag_dict)
    [] OTHER                             -> CloudStorageCheck(flag_dict)

NoVerdicts == [v \in ValidatorNames |-> "pending"]

\* The first registered validator that has not run yet (0: all have run).
NextValidator ==
  IF \E i \in 1..Len(Registered) : verdicts[Registered[i]] = "pending"
    THEN CHOOSE i \in 1..Len(Registered) :
           /\ verdicts[Registered[i]] = "pending"
           /\ \A j \in 1..(i - 1) : verdicts[Registered[j]] # "pending"
    ELSE 0

\* Argument parsing populates the flag values.
ParseFlags(fl) ==
  /\ pc = "start"
  /\ flags' = fl
  /\ pc' = "validating"
  /\ UNCHANGED <<verdicts, error, downstream>>
  /\ UNCHANGED paramVars

\* The next registered validator runs and returns true.
ValidatorPasses ==
  /\ pc = "validating"
  /\ NextValidator # 0
  /\ Verify(Registered[NextValidator], flags)
  /\ verdicts' = [verdicts EXCEPT ![Registered[NextValidator]] = "passed"]
  /\ UNCHANGED <<pc, flags, error, downstream>>
  /\ UNCHANGED paramVars

\* The next registered validator runs and returns false: the step is over.
ValidatorFails ==
  /\ pc = "validating"
  /\ NextValidator # 0
  /\ ~Verify(Registered[NextValidator], flags)
  /\ verdicts' = [verdicts EXCEPT ![Registered[NextValidator]] = "failed"]
  /\ error' = Message(Registered[NextValidator])
  /\ pc' = "fatal"
  /\ UNCHANGED <<flags, downstream>>
  /\ UNCHANGED paramVars

\* Every registered validator has passed: the configuration goes downstream.
HandDownstream ==
  /\ pc = "validating"
  /\ NextValidator = 0
  /\ downstream' = Some(flags)
  /\ pc' = "handed"
  /\ UNCHANGED <<flags, verdicts, error>>
  /\ UNCHANGED paramVars

\* No call made yet, and the configuration step not part of the behaviour.
Init ==
  /\ tables = ModelParams
  /\ copies = <<>>
  /\ held = {}
  /\ result = NoResult
  /\ first = [in \in ParamSetNames \X GpuCounts |-> NotCalled]
  /\ calls = 0
  /\ written = FALSE
  /\ pc = "idle"
  /\ flags = DefaultFlags
  /\ verdicts = NoVerdicts
  /\ error = ""
  /\ downstream = None

\* Process start: the flags are declared with their defaults, none is parsed.
FlagsInit ==
  /\ tables = ModelParams
  /\ copies = <<>>
  /\ held = {}
  /\ result = NoResult
  /\ first = [in \in ParamSetNames \X GpuCounts |-> NotCalled]
  /\ calls = 0
  /\ written = FALSE
  /\ pc = "start"
  /\ flags = DefaultFlags
  /\ verdicts = NoVerdicts
  /\ error = ""
  /\ downstream = None

Next ==
  \/ \E p \in ParamSetNames, n \in GpuCounts : GetModelParams(p, n)
  \/ \E ref \in held, f \in Fields, v \in MutValues : MutateReturned(ref, f, v)

Spec == Init /\ [][Next]_vars

FlagsNext ==
  \/ \E fl \in FlagValues : ParseFlags(fl)
  \/ ValidatorPasses
  \/ ValidatorFails
  \/ HandDownstream

FlagsSpec == FlagsInit /\ [][FlagsNext]_vars

(***************************************************************************)
(* Properties of the parameter-set resolver (checked under Spec).          *)
(***************************************************************************)

Called   == result.kind # "none"
Returned == result.kind = "return"
Enumerated == {"tiny", "base", "big"}

\* C1: every call with num_gpus > 1 and a param_set other than "base" or "big"
\* fails with a ValueError whose message names both the offending param_set
\* and num_gpus, and no record is returned.
C1_MultiGpuOtherNameIsValueError ==
  (Called /\ result.num_gpus > 1 /\ result.param_set \notin {"base", "big"}) =>
    /\ result.kind = "ValueError"
    /\ \E i \in 1..Len(result.args) : result.args[i] = result.param_set
    /\ \E i \in 1..Len(result.args) :
         result.args[i] = ToString(result.num_gpus)
    /\ result.ref = NoRef
    /\ result.record = NoRecord

\* C1 witness: get_model_params("tiny", 2) has raised ValueError.
C1_Witness ==
  /\ result.kind = "ValueError"
  /\ result.param_set = "tiny"
  /\ result.num_gpus = 2

\* C2: for param_set in {tiny, base, big}, a successful call returns the record
\* of the reference mapping: with num_gpus > 1 the multi-device base or big
\* record (a stored record other than the single-device one of that name), with
\* num_gpus <= 1 the single-device record of the name.
C2_ReturnsReferenceRecord ==
  (Returned /\ result.param_set \in Enumerated) =>
    LET single == CASE result.param_set = "tiny" -> "TINY_PARAMS"
                    [] result.param_set = "base" -> "BASE_PARAMS"
                    [] result.param_set = "big"  -> "BIG_PARAMS"
        multi  == CASE result.param_set = "base" -> "BASE_MULTI_GPU_PARAMS"
                    [] result.param_set = "big"  -> "BIG_MULTI_GPU_PARAMS"
                    [] OTHER                     -> "none"
        want   == IF result.num_gpus > 1 THEN multi ELSE single
    IN /\ want # "none"
       /\ result.table = want
       /\ result.record = ModelParams[want]
       /\ result.num_gpus > 1 =>
            /\ result.table # single
            /\ result.record # ModelParams[single]

\* C2 witness: get_model_params("big", 4) has returned the multi-device record.
C2_Witness ==
  /\ Returned
  /\ result.param_set = "big"
  /\ result.num_gpus = 4
  /\ result.table = "BIG_MULTI_GPU_PARAMS"

\* C3: every call with num_gpus <= 1 and a param_set that is none of "tiny",
\* "base", "big" fails with a KeyError and returns no record.
C3_UnknownNameIsKeyError ==
  (Called /\ result.num_gpus <= 1 /\ result.param_set \notin Enumerated) =>
    /\ result.kind = "KeyError"
    /\ result.args = <<result.param_set>>
    /\ result.ref = NoRef
    /\ result.record = NoRecord

\* C3 witness: get_model_params("unknown", 1) has raised KeyError.
C3_Witness ==
  /\ result.kind = "KeyError"
  /\ result.param_set = "unknown"
  /\ result.num_gpus = 1

\* C4: get_model_params returns a copy, never the stored record: whatever the
\* callers write into the records they were given, the stored tables stay as
\* they were, and a later call returns the field values the first call with
\* the same (param_set, num_gpus) returned.
C4_CopyKeepsTablesAndResults ==
  /\ tables = ModelParams
  /\ \A ref \in held : ref.copy # 0
  /\ Returned =>
       /\ result.ref.copy # 0
       /\ result.record = first[<<result.param_set, result.num_gpus>>].record

\* C4 witness: the second call repeats the input of the first, after a caller
\* has changed the record the first call returned.
C4_Witness ==
  /\ Returned
  /\ calls = 2
  /\ result.after_write
  /\ first[<<result.param_set, result.num_gpus>>].at = 1
  /\ result.ref = CopyRef(2)
  /\ copies[1] # result.record

(***************************************************************************)
(* Properties of the flag validators (checked under FlagsSpec).            *)
(***************************************************************************)

Handed == pc = "handed"
Ended  == pc \in {"handed", "fatal"}

\* C5 as stated: with mode == "train", validation accepts the configuration
\* only if train_epochs is set to a positive count.
C5_AcceptedTrainHasPositiveEpochs ==
  (Handed /\ flags.mode = "train") =>
    /\ flags.train_epochs # None
    /\ flags.train_epochs[1] > 0

\* C5 amended: with mode == "train", validation accepts the configuration only
\* if train_epochs is set (not None); train mode with train_epochs unset ends
\* rejected. The sign of a set train_epochs is not examined.
C5_AcceptedTrainHasEpochsSet ==
  /\ (Handed /\ flags.mode = "train") => flags.train_epochs # None
  /\ (Ended /\ flags.mode = "train" /\ flags.train_epochs = None) =>
       /\ pc = "fatal"
       /\ downstream = None

\* C5 witness: a train configuration with train_epochs = 0 has been accepted.
C5_Witness ==
  /\ Handed
  /\ flags.mode = "train"
  /\ flags.train_epochs = Some(0)
  /\ verdicts["_check_train_limits"] = "passed"

\* C6: the train-limits validator returns false for mode == "train" with
\* train_epochs unset, and true for every mode other than "train", whether or
\* not train_epochs is set.
C6_TrainLimitsVerdict ==
  verdicts["_check_train_limits"] # "pending" =>
    /\ (flags.mode = "train" /\ flags.train_epochs = None) =>
         verdicts["_check_train_limits"] = "failed"
    /\ flags.mode # "train" => verdicts["_check_train_limits"] = "passed"

\* C6 witness: the validator has passed mode=eval with train_epochs unset.
C6_Witness ==
  /\ verdicts["_check_train_limits"] = "passed"
  /\ flags.mode = "eval"
  /\ flags.train_epochs = None

\* C7: validation accepts the configuration only if bleu_source and bleu_ref
\* are both set or both unset; with exactly one of them set the bleu-files
\* validator returns false and the configuration is rejected.
C7_BleuFilesBothOrNeither ==
  LET oneOnly == (flags.bleu_source = None) # (flags.bleu_ref = None) IN
  /\ Handed => ~oneOnly
  /\ verdicts["_check_bleu_files"] # "pending" =>
       (verdicts["_check_bleu_files"] = "failed") = oneOnly
  /\ verdicts["_check_bleu_files"] = "failed" =>
       /\ pc = "fatal"
       /\ downstream = None

\* C7 witness: only bleu_source was set and the configuration was rejected.
C7_Witness ==
  /\ pc = "fatal"
  /\ flags.bleu_source # None
  /\ flags.bleu_ref = None
  /\ verdicts["_check_bleu_files"] = "failed"

\* C8 as stated: when bleu_source and bleu_ref are both set (any value other
\* than unset, the empty string included), validation accepts the
\* configuration only if vocab_file is set; and with both set and vocab_file
\* set the bleu/vocab validator returns true.
C8_BleuSetNeedsVocabFile ==
  (flags.bleu_source # None /\ flags.bleu_ref # None) =>
    /\ Handed => flags.vocab_file # None
    /\ flags.vocab_file # None =>
         verdicts["_check_bleu_vocab_file"] # "failed"

\* C9 as stated: when export_dir is set (any value other than unset, the empty
\* string included), validation accepts the configuration only if vocab_file
\* is set; and with export_dir set and vocab_file set the export/vocab
\* validator returns true.
C9_ExportSetNeedsVocabFile ==
  flags.export_dir # None =>
    /\ Handed => flags.vocab_file # None
    /\ flags.vocab_file # None =>
         verdicts["_check_export_vocab_file"] # "failed"

FourValidators ==
  {"_check_train_limits", "_check_bleu_files", "_check_bleu_vocab_file",
   "_check_export_vocab_file"}

StepOrder ==
  /\ downstream # None =>
       /\ pc = "handed"
       /\ downstream = Some(flags)
       /\ \A v \in FourValidators : verdicts[v] = "passed"
  /\ Handed => downstream # None
  /\ (\E v \in ValidatorNames : verdicts[v] = "failed") =>
       /\ pc = "fatal"
       /\ downstream = None

\* C10: a configuration is handed downstream only after all four cross-field
\* validators have returned true on the parsed flag values; once a validator
\* has returned false the step is in its fatal state and stays there: no
\* validator runs again and no configuration is ever handed downstream.
C10_HandedOnlyAfterAllPass ==
  /\ []StepOrder
  /\ [][pc = "fatal" =>
          /\ pc' = "fatal"
          /\ downstream' = None
          /\ verdicts' = verdicts
          /\ flags' = flags]_vars

\* C10 witness: all four validators passed and the configuration was handed on.
C10_Witness ==
  /\ Handed
  /\ downstream = Some(flags)
  /\ \A v \in FourValidators : verdicts[v] = "passed"

====
